---- MODULE Spec2Model ----
(***************************************************************************)
(* Model of src/app.py: a Streamlit dashboard script.  Streamlit runs the  *)
(* whole script from the top on every user interaction; what survives a    *)
(* run is the st.cache_data cache of load_data and the widget values kept  *)
(* by the session.  Numbers are kept in halves (h stands for h/2) so that  *)
(* non-integer values and int() truncation are part of the model.          *)
(***************************************************************************)
EXTENDS Integers, Sequences, FiniteSets, TLC

VARIABLES file, cache, session, pc, err, error_shown, car_data,
          price_bounds, od_bounds, year_bounds,
          condition_choices, manufacturer_choices,
          price_range, odometer_range, year_range,
          selected_conditions, selected_manufacturers,
          filtered_data, reported

vars == <<file, cache, session, pc, err, error_shown, car_data,
          price_bounds, od_bounds, year_bounds,
          condition_choices, manufacturer_choices,
          price_range, odometer_range, year_range,
          selected_conditions, selected_manufacturers,
          filtered_data, reported>>

\* ------------------------------------------------------------------ bounds
\* Largest number of data rows of the source file.
MaxRows == 2

\* ------------------------------------------------------------------ values
AllCols == {"price", "odometer", "model_year", "condition", "model"}
NumericCols == {"price", "odometer", "model_year"}

\* A cell of a numeric column after pd.to_numeric: NaN or a number (halves).
NaNNum == [nan |-> TRUE, v |-> 0]
Num(h) == [nan |-> FALSE, v |-> h]
\* A cell of a text column: NaN or a string (a sequence of characters).
NaNStr == [nan |-> TRUE, s |-> <<>>]
Str(s) == [nan |-> FALSE, s |-> s]
\* A cell of a numeric column as the file holds it: a number, text that is
\* no number, or nothing.
RawNum(h) == [kind |-> "num", v |-> h]
RawText == [kind |-> "text", v |-> 0]
RawEmpty == [kind |-> "empty", v |-> 0]

\* Python None for a slider range, and for a multiselect result.
None == <<>>
NoneSel == [none |-> TRUE, vals |-> {}]
ListSel(S) == [none |-> FALSE, vals |-> S]

\* pd.DataFrame(): no columns, no rows.
EmptyFrame == [cols |-> {}, rows |-> <<>>]

\* The rows a source file is made of (price, odometer, model_year in halves):
\* integer and non-integer numbers, a negative one, text that is no number,
\* empty cells, and model strings with one token, two tokens, leading
\* blanks, and blanks only.
SampleRows ==
  { [price |-> RawNum(3), odometer |-> RawNum(2), model_year |-> RawNum(4),
     condition |-> Str(<<"g">>), model |-> Str(<<"f", " ", "x">>)],
    [price |-> RawNum(0), odometer |-> RawNum(0), model_year |-> RawNum(2),
     condition |-> Str(<<"n">>), model |-> Str(<<" ", "b">>)],
    [price |-> RawNum(2), odometer |-> RawText, model_year |-> RawEmpty,
     condition |-> NaNStr, model |-> NaNStr],
    [price |-> RawEmpty, odometer |-> RawNum(-3), model_year |-> RawNum(4),
     condition |-> Str(<<"g">>), model |-> Str(<<"f">>)],
    [price |-> RawNum(4), odometer |-> RawNum(2), model_year |-> RawNum(2),
     condition |-> Str(<<"n">>), model |-> Str(<<" ", " ">>)] }

\* The row as a file with header `cols` holds it.
Project(r, cols) == [c \in cols |-> r[c]]

\* The file at the path of load_data: not found, or a CSV with a header (the
\* column names as df.columns.str.strip() leaves them) and up to MaxRows rows.
Files ==
  { [found |-> FALSE, cols |-> {}, rows |-> <<>>] } \cup
  { [found |-> TRUE, cols |-> cols, rows |-> [i \in 1..n |-> Project(rs[i], cols)]] :
      cols \in (SUBSET AllCols) \ {{}}, n \in 0..MaxRows, rs \in [1..MaxRows -> SampleRows] }
\* ------------------------------------------------------------------ loader
\* pd.to_numeric(..., errors="coerce") on one cell.
ToNumeric(raw) == IF raw.kind = "num" THEN Num(raw.v) ELSE NaNNum

\* str.split() with no separator: the maximal runs of non-whitespace, in order.
RECURSIVE SplitFrom(_, _, _)
SplitFrom(s, i, cur) ==
  IF i > Len(s) THEN (IF cur = <<>> THEN <<>> ELSE <<cur>>)
  ELSE IF s[i] = " "
       THEN (IF cur = <<>> THEN <<>> ELSE <<cur>>) \o SplitFrom(s, i + 1, <<>>)
       ELSE SplitFrom(s, i + 1, Append(cur, s[i]))
Split(s) == SplitFrom(s, 1, <<>>)

LastTokenOf(cell) ==
  IF cell.nan THEN NaNStr
  ELSE LET tokens == Split(cell.s)
       IN  IF tokens = <<>> THEN NaNStr ELSE Str(tokens[Len(tokens)])
\* df["model"].str.split().str[0] on one cell: NaN stays NaN, and a string
\* with no token (str[0] of an empty list) gives NaN.
FirstTokenOf(cell) ==
  IF cell.nan THEN NaNStr
  ELSE LET tokens == Split(cell.s)
       IN  IF tokens = <<>> THEN NaNStr ELSE Str(tokens[1])

\* The .str accessor raises AttributeError on a column read as all-NaN floats.
StrAccessorFails(f) ==
  /\ "model" \in f.cols
  /\ Len(f.rows) > 0
  /\ \A i \in 1..Len(f.rows) : f.rows[i]["model"].nan

LoadedCols(f) == IF "model" \in f.cols THEN f.cols \cup {"manufacturer"} ELSE f.cols

LoadedRow(r, cols) ==
  [c \in cols |->
     IF c \in NumericCols THEN ToNumeric(r[c])
     ELSE IF c = "manufacturer" THEN FirstTokenOf(r["model"])
     ELSE r[c]]

\* The body of load_data on a file that read_csv can read.
LoadFrame(f) ==
  IF ~f.found THEN EmptyFrame
  ELSE [cols |-> LoadedCols(f),
        rows |-> [i \in 1..Len(f.rows) |-> LoadedRow(f.rows[i], LoadedCols(f))]]

NeverEmpty(df) == FALSE
\* DataFrame.empty: some axis has length 0.
IsEmpty(df) == df.cols = {} \/ Len(df.rows) = 0

NoCache == [set |-> FALSE, df |-> EmptyFrame]
Cached(df) == [set |-> TRUE, df |-> df]

NoSession == [price |-> None, odometer |-> None, model_year |-> None,
              condition |-> NoneSel, manufacturer |-> NoneSel]

Init ==
  /\ file \in Files
  /\ cache = NoCache
  /\ session = NoSession
  /\ pc = "start"
  /\ err = "none"
  /\ error_shown = FALSE
  /\ car_data = EmptyFrame
  /\ price_bounds = None /\ od_bounds = None /\ year_bounds = None
  /\ condition_choices = {} /\ manufacturer_choices = {}
  /\ price_range = None /\ odometer_range = None /\ year_range = None
  /\ selected_conditions = NoneSel /\ selected_manufacturers = NoneSel
  /\ filtered_data = EmptyFrame
  /\ reported = -1

widgetVars == <<price_bounds, od_bounds, year_bounds, condition_choices,
                manufacturer_choices, price_range, odometer_range, year_range,
                selected_conditions, selected_manufacturers>>

\* if car_data.empty: st.stop()
AfterLoad(df) == IF IsEmpty(df) THEN "stopped" ELSE "widgets"

\* Lines 28-31.  car_data = load_data(): the cached result when there is
\* one, else the body of load_data, whose result (and st.error message) the
\* cache then replays; the run stops there when the table is empty.
Load ==
  /\ pc = "start"
  /\ IF cache.set
     THEN /\ car_data' = cache.df
          /\ error_shown' = ~file.found
          /\ pc' = AfterLoad(car_data')
          /\ UNCHANGED <<cache, err>>
     ELSE IF file.found /\ StrAccessorFails(file)
     THEN /\ pc' = "crashed"
          /\ err' = "AttributeError"
          /\ UNCHANGED <<cache, car_data, error_shown>>
     ELSE /\ car_data' = LoadFrame(file)
          /\ cache' = Cached(car_data')
          /\ error_shown' = ~file.found
          /\ pc' = AfterLoad(car_data')
          /\ UNCHANGED err
  /\ UNCHANGED <<file, session, filtered_data, reported>>
  /\ UNCHANGED widgetVars

\* ----------------------------------------------------------------- widgets
HasCol(df, c) == c \in df.cols

\* The non-missing numbers of a column (min and max skip NaN).
ColNumbers(df, c) == { df.rows[i][c].v : i \in { j \in 1..Len(df.rows) : ~df.rows[j][c].nan } }
\* sorted(df[c].dropna().unique()): the non-missing strings of a column (the
\* order of the choices plays no part in the filter).
ColStrings(df, c) == { df.rows[i][c].s : i \in { j \in 1..Len(df.rows) : ~df.rows[j][c].nan } }

MinOf(S) == CHOOSE x \in S : \A y \in S : x <= y
MaxOf(S) == CHOOSE x \in S : \A y \in S : x >= y

\* int(x) of a float given in halves: truncation toward zero.
IntTrunc(h) == IF h >= 0 THEN h \div 2 ELSE -((-h) \div 2)

\* (int(min), int(max)) of a column; int(NaN) raises ValueError when the
\* column holds no number.
AllMissing(df, c) == ColNumbers(df, c) = {}
BoundsOf(df, c) == <<IntTrunc(MinOf(ColNumbers(df, c))), IntTrunc(MaxOf(ColNumbers(df, c)))>>

\* st.slider(label, lo, hi, (lo, hi)): the value the session holds for the
\* widget, the default (the full range) when the widget is new.
SliderValue(stored, bounds) == IF stored = None THEN bounds ELSE stored
\* st.multiselect(label, choices, default=...): the value the session holds,
\* the default list when the widget is new (default=None gives []).
MultiselectValue(stored, default) == IF stored.none THEN ListSel(default) ELSE stored

\* The first statement of lines 44-60 that raises, "none" when none does.
WidgetError(df) ==
  IF ~HasCol(df, "price") THEN "KeyError"
  ELSE IF AllMissing(df, "price") THEN "ValueError"
  ELSE IF HasCol(df, "odometer") /\ AllMissing(df, "odometer") THEN "ValueError"
  ELSE IF HasCol(df, "model_year") /\ AllMissing(df, "model_year") THEN "ValueError"
  ELSE "none"

\* Lines 44-72: the five sidebar widgets, built from car_data.
Widgets ==
  /\ pc = "widgets"
  /\ IF WidgetError(car_data) # "none"
     THEN /\ pc' = "crashed"
          /\ err' = WidgetError(car_data)
          /\ UNCHANGED session
          /\ UNCHANGED widgetVars
     ELSE /\ price_bounds' = BoundsOf(car_data, "price")
          /\ price_range' = SliderValue(session.price, price_bounds')
          /\ od_bounds' = IF HasCol(car_data, "odometer")
                          THEN BoundsOf(car_data, "odometer") ELSE None
          /\ odometer_range' = IF HasCol(car_data, "odometer")
                               THEN SliderValue(session.odometer, od_bounds') ELSE None
          /\ year_bounds' = IF HasCol(car_data, "model_year")
                            THEN BoundsOf(car_data, "model_year") ELSE None
          /\ year_range' = IF HasCol(car_data, "model_year")
                           THEN SliderValue(session.model_year, year_bounds') ELSE None
          /\ condition_choices' = IF HasCol(car_data, "condition")
                                  THEN ColStrings(car_data, "condition") ELSE {}
          /\ selected_conditions' =
               IF HasCol(car_data, "condition")
               THEN MultiselectValue(session.condition, condition_choices') ELSE NoneSel
          /\ manufacturer_choices' = IF HasCol(car_data, "manufacturer")
                                     THEN ColStrings(car_data, "manufacturer") ELSE {}
          /\ selected_manufacturers' =
               IF HasCol(car_data, "manufacturer")
               THEN MultiselectValue(session.manufacturer, {}) ELSE NoneSel
          /\ session' = [price |-> price_range', odometer |-> odometer_range',
                         model_year |-> year_range',
                         condition |-> selected_conditions',
                         manufacturer |-> selected_manufacturers']
          /\ pc' = "filter"
          /\ UNCHANGED err
  /\ UNCHANGED <<file, cache, error_shown, car_data, filtered_data, reported>>

\* ------------------------------------------------------------------ filter
InRangeHalfOpen(cell, lo, hi) == ~cell.nan /\ cell.v >= 2 * lo /\ cell.v < 2 * hi
InRangeOrMissing(cell, lo, hi) == cell.nan \/ (cell.v >= 2 * lo /\ cell.v <= 2 * hi)
\* (col >= lo) & (col <= hi) on one cell; a comparison with NaN is False.
InRange(cell, lo, hi) == ~cell.nan /\ cell.v >= 2 * lo /\ cell.v <= 2 * hi

IsInOrMissing(cell, vals) == cell.nan \/ cell.s \in vals
\* Series.isin(values) on one cell; NaN is in no list of strings.
IsIn(cell, vals) == ~cell.nan /\ cell.s \in vals

NotNone(sel) == ~sel.none
\* `if selected:` -- None and the empty list are both falsy.
Truthy(sel) == ~sel.none /\ sel.vals # {}

\* df[mask]: the rows the mask keeps, in order.
FilterRange(df, c, range) ==
  LET Keep(r) == InRange(r[c], range[1], range[2])
  IN  [df EXCEPT !.rows = SelectSeq(df.rows, Keep)]
FilterIsIn(df, c, sel) ==
  LET Keep(r) == IsIn(r[c], sel.vals)
  IN  [df EXCEPT !.rows = SelectSeq(df.rows, Keep)]

\* car_data.copy()
CopyOf(df) == df

\* The five filter statements, lines 75-96, each on the table before it.
StepPrice(df) == FilterRange(df, "price", price_range)
StepOdometer(df) ==
  IF odometer_range # None THEN FilterRange(df, "odometer", odometer_range) ELSE df
StepYear(df) ==
  IF year_range # None THEN FilterRange(df, "model_year", year_range) ELSE df
StepCondition(df) ==
  IF Truthy(selected_conditions) THEN FilterIsIn(df, "condition", selected_conditions) ELSE df
StepManufacturer(df) ==
  IF Truthy(selected_manufacturers)
  THEN FilterIsIn(df, "manufacturer", selected_manufacturers) ELSE df

FilterChain(df) ==
  StepManufacturer(StepCondition(StepYear(StepOdometer(StepPrice(CopyOf(df))))))

FilteredInPlace(c, result) == [c EXCEPT !.df = result]
\* What lines 74-96 leave in the cache: they work on a copy and build new
\* tables, so the cached table is the one load_data returned.
CacheAfterFilter(c, result) == c

\* Lines 74-101: the filter chain, then the row count written to the sidebar.
Filter ==
  /\ pc = "filter"
  /\ filtered_data' = FilterChain(car_data)
  /\ cache' = CacheAfterFilter(cache, filtered_data')
  /\ reported' = Len(filtered_data'.rows)
  /\ pc' = "done"
  /\ UNCHANGED <<file, session, err, error_shown, car_data>>
  /\ UNCHANGED widgetVars

\* ------------------------------------------------------------------ reruns
\* A rerun executes the script from the top in a fresh namespace.
FreshRun ==
  /\ pc' = "start"
  /\ err' = "none"
  /\ error_shown' = FALSE
  /\ car_data' = EmptyFrame
  /\ price_bounds' = None /\ od_bounds' = None /\ year_bounds' = None
  /\ condition_choices' = {} /\ manufacturer_choices' = {}
  /\ price_range' = None /\ odometer_range' = None /\ year_range' = None
  /\ selected_conditions' = NoneSel /\ selected_manufacturers' = NoneSel
  /\ filtered_data' = EmptyFrame
  /\ reported' = -1

Ranges(bounds) == { <<lo, hi>> : lo \in bounds[1]..bounds[2], hi \in bounds[1]..bounds[2] }

\* The pairs a range slider can be dragged to: lo <= hi inside the bounds.
SliderRanges(bounds) == { r \in Ranges(bounds) : r[1] <= r[2] }

\* The user moves one widget of the rendered page; the script reruns.  (A
\* run that stopped or raised before the widgets has rendered none.)
Interact ==
  /\ pc = "done"
  /\ \/ \E r \in SliderRanges(price_bounds) :
          r # session.price /\ session' = [session EXCEPT !.price = r]
     \/ /\ od_bounds # None
        /\ \E r \in SliderRanges(od_bounds) :
             r # session.odometer /\ session' = [session EXCEPT !.odometer = r]
     \/ /\ year_bounds # None
        /\ \E r \in SliderRanges(year_bounds) :
             r # session.model_year /\ session' = [session EXCEPT !.model_year = r]
     \/ /\ ~session.condition.none
        /\ \E S \in SUBSET condition_choices :
             S # session.condition.vals /\ session' = [session EXCEPT !.condition = ListSel(S)]
     \/ /\ ~session.manufacturer.none
        /\ \E S \in SUBSET manufacturer_choices :
             S # session.manufacturer.vals
             /\ session' = [session EXCEPT !.manufacturer = ListSel(S)]
  /\ FreshRun
  /\ UNCHANGED <<file, cache>>

\* The page is reloaded: a new session (widgets back to their defaults), the
\* cache of load_data kept.
Refresh ==
  /\ pc \in {"done", "stopped", "crashed"}
  /\ session' = NoSession
  /\ FreshRun
  /\ UNCHANGED <<file, cache>>

Next == Load \/ Widgets \/ Filter \/ Interact \/ Refresh

Spec == Init /\ [][Next]_vars
\* ------------------------------------------------------------------ claims
Ran == pc = "done"
RowsOf(df) == { df.rows[i] : i \in 1..Len(df.rows) }

\* The predicates of the current settings, stated on one row of the table.
PriceOk(r) ==
  /\ ~r["price"].nan
  /\ 2 * price_range[1] <= r["price"].v /\ r["price"].v <= 2 * price_range[2]
OdometerOk(r) ==
  \/ odometer_range = None
  \/ /\ ~r["odometer"].nan
     /\ 2 * odometer_range[1] <= r["odometer"].v
     /\ r["odometer"].v <= 2 * odometer_range[2]
YearOk(r) ==
  \/ year_range = None
  \/ /\ ~r["model_year"].nan
     /\ 2 * year_range[1] <= r["model_year"].v
     /\ r["model_year"].v <= 2 * year_range[2]
ConditionOk(r) ==
  \/ selected_conditions.none
  \/ selected_conditions.vals = {}
  \/ (~r["condition"].nan /\ r["condition"].s \in selected_conditions.vals)
ManufacturerOk(r) ==
  \/ selected_manufacturers.none
  \/ selected_manufacturers.vals = {}
  \/ (~r["manufacturer"].nan /\ r["manufacturer"].s \in selected_manufacturers.vals)
AllOk(r) == PriceOk(r) /\ OdometerOk(r) /\ YearOk(r) /\ ConditionOk(r) /\ ManufacturerOk(r)

\* Any pair of integer slider positions around the sample values, lo > hi
\* included.
AnyRanges == { <<lo, hi>> : lo \in -2..3, hi \in -2..3 }

\* C1: every row of the filtered table has, in each numeric column whose
\* range was applied, a non-missing value inside the closed range, so no row
\* with a missing value in a constrained numeric column is in the filtered
\* table; and the range mask of lines 75-90, put on the loaded table with
\* any bounds at all, keeps only non-missing values inside them and keeps
\* nothing when lo > hi.
C1_RowsInsideRanges ==
  /\ Ran => \A r \in RowsOf(filtered_data) : PriceOk(r) /\ OdometerOk(r) /\ YearOk(r)
  /\ (pc = "widgets" /\ session = NoSession) =>
       \A c \in car_data.cols \cap NumericCols : \A range \in AnyRanges :
         /\ \A r \in RowsOf(FilterRange(car_data, c, range)) :
              ~r[c].nan /\ 2 * range[1] <= r[c].v /\ r[c].v <= 2 * range[2]
         /\ range[1] > range[2] => FilterRange(car_data, c, range).rows = <<>>

\* C1 witness: a run kept a row and dropped, by the odometer range, a row
\* whose odometer is missing and whose price is inside the price range.
C1_Witness ==
  /\ pc = "done"
  /\ Len(filtered_data.rows) >= 1
  /\ odometer_range # None
  /\ \E r \in RowsOf(car_data) : r["odometer"].nan /\ PriceOk(r)

C3_NoErrorFromAbsentColumn == ~(pc = "crashed" /\ err = "KeyError")

\* C4: when the source file is not found the load gives an empty table, the
\* message is shown, and the run halts after the load: no widget, filter or
\* report step runs, and nothing is raised.
C4_MissingFileHalts ==
  ~file.found =>
    /\ pc \in {"start", "stopped"}
    /\ err = "none"
    /\ pc # "start" => (car_data = EmptyFrame /\ error_shown)
    /\ price_range = None /\ odometer_range = None /\ year_range = None
    /\ selected_conditions = NoneSel /\ selected_manufacturers = NoneSel
    /\ filtered_data = EmptyFrame
    /\ reported = -1
    /\ cache.set => cache.df = EmptyFrame

\* C4 witness: the run of a missing file has stopped, the message shown.
C4_Witness == ~file.found /\ pc = "stopped" /\ error_shown /\ cache.set

AtDefaults ==
  /\ price_range = price_bounds
  /\ odometer_range = od_bounds
  /\ year_range = year_bounds
  /\ selected_conditions.vals = condition_choices
  /\ selected_manufacturers.vals = {}

\* C5: with every widget at its default (the user has imposed no predicate)
\* the filtered table is the loaded table, rows with missing values included.
C5_DefaultsKeepEveryRow == (Ran /\ AtDefaults) => filtered_data = car_data

\* C6: the filtered table of a run is the filter of the full loaded table
\* under the settings of that run alone, whatever the earlier runs were, and
\* filtering it again under the same settings changes nothing.
C6_CurrentSettingsOnly ==
  Ran =>
    LET loaded == LoadFrame(file)
    IN  /\ filtered_data.cols = loaded.cols
        /\ filtered_data.rows = SelectSeq(loaded.rows, AllOk)
        /\ FilterChain(filtered_data) = filtered_data

\* C6 witness: a run after at least two interactions, with a moved price
\* slider and a chosen manufacturer, that keeps one row and drops another.
C6_Witness ==
  /\ pc = "done"
  /\ price_range # price_bounds
  /\ selected_manufacturers.vals # {}
  /\ Len(filtered_data.rows) >= 1
  /\ Len(filtered_data.rows) < Len(car_data.rows)
\* The filter statements by position, and a chain that runs them in a given
\* order.
Step(i, df) ==
  CASE i = 1 -> StepPrice(df)
    [] i = 2 -> StepOdometer(df)
    [] i = 3 -> StepYear(df)
    [] i = 4 -> StepCondition(df)
    [] OTHER -> StepManufacturer(df)
StepOk(i, r) ==
  CASE i = 1 -> PriceOk(r)
    [] i = 2 -> OdometerOk(r)
    [] i = 3 -> YearOk(r)
    [] i = 4 -> ConditionOk(r)
    [] OTHER -> ManufacturerOk(r)
Steps == 1..Cardinality({"price", "odometer", "model_year", "condition", "manufacturer"})
\* The rows of df that pass every predicate of the steps in S at once.
Conjunction(S, df) ==
  LET Keep(r) == \A i \in S : StepOk(i, r)
  IN  [df EXCEPT !.rows = SelectSeq(df.rows, Keep)]

\* C7: the chain of filter statements, run one after another on the
\* intermediate tables, keeps exactly the rows of the loaded table that pass
\* all applied predicates at once, each once and in the table's order; and
\* whatever statements have run, in whatever order, running one more on
\* their result keeps exactly its rows that pass that statement's
\* predicate, so every order of the statements ends in the same table.
C7_ChainIsConjunction ==
  Ran =>
    /\ filtered_data = Conjunction(Steps, car_data)
    /\ \A S \in SUBSET Steps :
         LET T == Conjunction(S, car_data)
         IN  \A i \in Steps \ S : Step(i, T) = Conjunction({i}, T)

\* C7 witness: one row is dropped by the price range alone and another by
\* the condition selection alone.
C7_Witness ==
  /\ pc = "done"
  /\ \E r \in RowsOf(car_data) :
       ~PriceOk(r) /\ OdometerOk(r) /\ YearOk(r) /\ ConditionOk(r) /\ ManufacturerOk(r)
  /\ \E r \in RowsOf(car_data) :
       PriceOk(r) /\ OdometerOk(r) /\ YearOk(r) /\ ~ConditionOk(r) /\ ManufacturerOk(r)

\* manu is the first whitespace-delimited token of model: missing when model
\* is missing or holds no token, else the run of non-blank characters that
\* follows the leading blanks of model.
IsFirstToken(model, manu) ==
  /\ manu.nan <=> (model.nan \/ \A k \in 1..Len(model.s) : model.s[k] = " ")
  /\ ~manu.nan =>
       \E i \in 1..Len(model.s) : \E j \in i..Len(model.s) :
         /\ \A k \in 1..(i - 1) : model.s[k] = " "
         /\ \A k \in i..j : model.s[k] # " "
         /\ j = Len(model.s) \/ model.s[j + 1] = " "
         /\ manu.s = SubSeq(model.s, i, j)

\* C8: filtering never changes the loaded table: the cached table and the
\* car_data of every run are the table computed at load, its manufacturer
\* column is the first token of model, and the slider bounds and the choice
\* lists of every run are those of the full loaded table.
C8_LoadedTableStable ==
  LET loaded == LoadFrame(file)
  IN  /\ cache.set => cache.df = loaded
      /\ (cache.set /\ pc # "start") => car_data = loaded
      /\ ("manufacturer" \in car_data.cols) <=> ("model" \in car_data.cols)
      /\ "manufacturer" \in car_data.cols =>
           \A r \in RowsOf(car_data) : IsFirstToken(r["model"], r["manufacturer"])
      /\ pc \in {"filter", "done"} =>
           /\ price_bounds = BoundsOf(loaded, "price")
           /\ od_bounds # None => od_bounds = BoundsOf(loaded, "odometer")
           /\ year_bounds # None => year_bounds = BoundsOf(loaded, "model_year")
           /\ "condition" \in file.cols =>
                condition_choices = ColStrings(loaded, "condition")
           /\ "model" \in file.cols =>
                manufacturer_choices = ColStrings(loaded, "manufacturer")

\* C8 witness: a later run has dropped a row, and the table holds a
\* manufacturer that is a proper part of its model string.
C8_Witness ==
  /\ pc = "done"
  /\ price_range # price_bounds
  /\ Len(filtered_data.rows) < Len(car_data.rows)
  /\ "manufacturer" \in car_data.cols
  /\ \E r \in RowsOf(car_data) : ~r["manufacturer"].nan /\ r["manufacturer"].s # r["model"].s

\* C9: a numeric slider left at its default range excludes no row that has
\* a value in the slider's column.
C9_DefaultRangeKeepsValues ==
  Ran => \A r \in RowsOf(car_data) :
    /\ (price_range = price_bounds /\ ~r["price"].nan) => PriceOk(r)
    /\ (odometer_range # None /\ odometer_range = od_bounds /\ ~r["odometer"].nan)
         => OdometerOk(r)
    /\ (year_range # None /\ year_range = year_bounds /\ ~r["model_year"].nan)
         => YearOk(r)

\* C10: with a non-empty condition selection no row of the filtered table
\* has a missing condition; with an empty manufacturer selection every row
\* that passes the other predicates is kept, a missing manufacturer or not.
C10_MissingCategoricals ==
  Ran =>
    /\ (~selected_conditions.none /\ selected_conditions.vals # {}) =>
         \A r \in RowsOf(filtered_data) : ~r["condition"].nan
    /\ (~selected_manufacturers.none /\ selected_manufacturers.vals = {}) =>
         \A r \in RowsOf(car_data) :
           ( /\ r["manufacturer"].nan
             /\ PriceOk(r) /\ OdometerOk(r) /\ YearOk(r)
             /\ (~selected_conditions.none /\ selected_conditions.vals # {})
                   => (~r["condition"].nan /\ r["condition"].s \in selected_conditions.vals) )
           => r \in RowsOf(filtered_data)

\* C10 witness: at the defaults a row with a missing condition was dropped
\* by the condition filter alone and a row with a missing manufacturer kept.
C10_Witness ==
  /\ pc = "done"
  /\ AtDefaults
  /\ condition_choices # {}
  /\ "manufacturer" \in car_data.cols
  /\ \E r \in RowsOf(car_data) :
       r["condition"].nan /\ PriceOk(r) /\ OdometerOk(r) /\ YearOk(r)
       /\ r \notin RowsOf(filtered_data)
  /\ \E r \in RowsOf(filtered_data) : r["manufacturer"].nan
====
